---- MODULE Spec2Model ----
(***************************************************************************)
(* Commit-graph layout of vscode_gitex: the pure-TypeScript lane           *)
(* assignment (src/wasm/wasmBridge.ts, computeGraphLayoutTS), the log      *)
(* decoder it reads (src/git/gitParsers.ts, parseLogOutput) and the paging *)
(* session that owns the accumulated layout (src/graph/graphDataProvider.ts*)
(* GraphDataProvider).  The accelerated (WASM) module is not loaded, as in *)
(* the repository's test suite, so every layout is the TypeScript one; the *)
(* bridge operations alone are also run with the module loaded.            *)
(* The last part is the graph view: the webview (GraphApp, VirtualScroll)  *)
(* and the GraphViewProvider that answers its messages.                    *)
(*                                                                         *)
(* Specifications: SpecLayout (the layout, row by row, on any selection of *)
(* the commits of a repository), SpecRecords (the layout on decorated      *)
(* records), SpecParse (the decoder on cut records), SpecBridge (the       *)
(* bridge operations), Spec (a sequential paging session of                *)
(* GraphDataProvider), SpecAsync (the same session await by await, with    *)
(* overlapping calls), SpecView (the webview and the view provider         *)
(* exchanging messages) and SpecViewFair (SpecView with its scheduling).   *)
(***************************************************************************)
EXTENDS Integers, Sequences, FiniteSets, TLC

\* ------------------------------------------------------------------ bounds
MaxCommits == 3     \* commits in the repository
MaxParents == 2     \* parents of one commit
PageSize == 2       \* configuration.graphPageSize of the modelled session

\* ------------------------------------------------------- program constants
WORKING_DIR_SHA == 1
COMMIT_INDEX_SHA == 2
NoSha == 0
MinFields == 10
LogFormatFields == 11
PaletteSize == 12

Null == <<>>
Some(x) == <<x>>

\* The identity of the i-th commit of the repository (real identities never
\* collide with the two synthetic ones).
Sha(i) == COMMIT_INDEX_SHA + i

Min(a, b) == IF a < b THEN a ELSE b

\* ----------------------------------------------------------- repositories
\* A repository is a commit DAG written in topological order: commit i has
\* an ordered list of distinct parents, all of them later in the order.
SeqsUpTo(S, n) == UNION {[1..k -> S] : k \in 0..n}

ParentLists(S) ==
    {p \in SeqsUpTo(S, MaxParents) :
        \A a, b \in DOMAIN p : a # b => p[a] # p[b]}

RECURSIVE Dags(_, _)
Dags(i, n) ==
    IF i > n THEN {<<>>}
    ELSE {<<p>> \o rest : p \in ParentLists((i + 1)..n), rest \in Dags(i + 1, n)}

Repos == UNION {Dags(1, n) : n \in 0..MaxCommits}

\* ------------------------------------------------------------ hashString
\* Branch names are kept as their UTF-16 code units.
RefNames == {"main", "dev"}
CharCodes(name) ==
    IF name = "main" THEN <<109, 97, 105, 110>>
    ELSE IF name = "dev" THEN <<100, 101, 118>>
    ELSE <<>>

\* One round of the loop on a 32-bit hash kept as two 16-bit halves:
\* hash = ((hash << 5) - hash) + char; hash |= 0.
HashRound(h, c) ==
    LET lo == 31 * h.lo + c
        hi == 31 * h.hi + (lo \div 65536)
    IN [hi |-> hi % 65536, lo |-> lo % 65536]

RECURSIVE HashFrom(_, _, _)
HashFrom(h, codes, i) ==
    IF i > Len(codes) THEN h ELSE HashFrom(HashRound(h, codes[i]), codes, i + 1)

\* Math.abs(hash) % 12, the only use the layout makes of hashString.
hashStringMod(name, m) ==
    LET h == HashFrom([hi |-> 0, lo |-> 0], CharCodes(name), 1)
        \* |hash| as halves: two's complement negation when the sign bit is set
        neg == h.hi >= 32768
        alo == IF neg THEN (65536 - h.lo) % 65536 ELSE h.lo
        ahi == IF neg THEN (65535 - h.hi) + (IF h.lo = 0 THEN 1 ELSE 0) ELSE h.hi
    IN ((ahi % m) * (65536 % m) + (alo % m)) % m

\* ------------------------------------------------------------- the decoder
\* One decoration token of %d: an optional "HEAD -> " or bare "HEAD", an
\* optional "tag: " prefix, a ref path prefix and the remaining name.
parseDecorateToken(tok) ==
    IF tok.head = "bare" THEN <<[name |-> "HEAD", refType |-> "Head", isHead |-> TRUE]>>
    ELSE
        LET isHead == tok.head = "arrow"
            headRef == IF isHead
                       THEN <<[name |-> "HEAD", refType |-> "Head", isHead |-> TRUE]>>
                       ELSE <<>>
            t1 == IF tok.tag THEN "Tag" ELSE "Branch"
            refType == CASE tok.path = "heads" -> "Branch"
                         [] tok.path = "remotes" -> "RemoteBranch"
                         [] tok.path = "tags" -> "Tag"
                         [] tok.path = "stash" -> "Stash"
                         [] OTHER -> t1
            name == IF tok.path = "stash" THEN "refs/stash" ELSE tok.name
        IN headRef \o <<[name |-> name, refType |-> refType, isHead |-> isHead]>>

RECURSIVE parseDecorate(_)
parseDecorate(toks) ==
    IF toks = <<>> THEN <<>>
    ELSE parseDecorateToken(Head(toks)) \o parseDecorate(Tail(toks))

\* A raw record is the number of NUL-separated fields it has and the fields
\* the layout reads.  Records with fewer than ten fields are skipped.
\* The decoration is the eleventh field: fields.length > 10 ? fields[10] : ''
parseRecord(rec) ==
    [sha |-> rec.sha, parents |-> rec.parents,
     refs |-> IF rec.nfields > MinFields THEN parseDecorate(rec.deco) ELSE <<>>]

\* TooFewFields with the comparison off by one: a record of exactly ten
\* fields is skipped too.
TooFewFieldsOrTen(rec) == rec.nfields <= MinFields

\* if (fields.length < 10) { continue; }
TooFewFields(rec) == rec.nfields < MinFields

RECURSIVE parseLogOutput(_)
parseLogOutput(raw) ==
    IF raw = <<>> THEN <<>>
    ELSE IF TooFewFields(Head(raw)) THEN parseLogOutput(Tail(raw))
    ELSE <<parseRecord(Head(raw))>> \o parseLogOutput(Tail(raw))

\* ------------------------------------------------------ lane assignment
EmptyEngine == [activeLanes |-> <<>>, shaToLane |-> <<>>, nodes |-> <<>>, edges |-> <<>>]

\* shaToLane is kept as a sequence of <<sha, lane>> pairs, at most one per sha.
HasLane(m, sha) == \E i \in 1..Len(m) : m[i][1] = sha
LaneOf(m, sha) == m[CHOOSE i \in 1..Len(m) : m[i][1] = sha][2]
SetLaneOf(m, sha, lane) ==
    IF HasLane(m, sha)
    THEN [i \in 1..Len(m) |-> IF m[i][1] = sha THEN <<sha, lane>> ELSE m[i]]
    ELSE Append(m, <<sha, lane>>)

\* activeLanes.indexOf(null)
IndexOfNull(al) ==
    IF \E i \in 1..Len(al) : al[i] = NoSha
    THEN (CHOOSE i \in 1..Len(al) :
             al[i] = NoSha /\ \A j \in 1..(i - 1) : al[j] # NoSha) - 1
    ELSE -1

\* FirstFreeLane without recycling: a new lane is pushed every time.
AlwaysNewLane(al) ==
    [lane |-> Len(al), activeLanes |-> Append(al, NoSha)]

\* lane = activeLanes.indexOf(null); if -1, lane = length and push(null)
FirstFreeLane(al) ==
    IF IndexOfNull(al) # -1
    THEN [lane |-> IndexOfNull(al), activeLanes |-> al]
    ELSE [lane |-> Len(al), activeLanes |-> Append(al, NoSha)]

SetActive(al, lane, v) == [al EXCEPT ![lane + 1] = v]

HasRefType(refs, t) == \E i \in 1..Len(refs) : refs[i].refType = t

\* commit.refs.find(r => r.refType === 'Branch'): hashString(name) % 12, else lane % 12
ColorIndex(refs, lane) ==
    IF HasRefType(refs, "Branch")
    THEN hashStringMod(refs[CHOOSE i \in 1..Len(refs) :
                                refs[i].refType = "Branch"
                                /\ \A j \in 1..(i - 1) : refs[j].refType # "Branch"].name,
                       PaletteSize)
    ELSE lane % PaletteSize

NodeTypeOf(refs) ==
    IF HasRefType(refs, "Stash") THEN "Stash"
    ELSE IF HasRefType(refs, "Head") THEN "Head"
    ELSE "Normal"

\* The LayoutNode pushed for the commit of one row.
NewNodeRowFromOne(commit, lane, row, colorIndex) ==
    [sha |-> commit.sha, lane |-> lane, row |-> row + 1,
     colorIndex |-> colorIndex, refs |-> commit.refs,
     parents |-> commit.parents, nodeType |-> NodeTypeOf(commit.refs)]

NewNode(commit, lane, row, colorIndex) ==
    [sha |-> commit.sha, lane |-> lane, row |-> row,
     colorIndex |-> colorIndex, refs |-> commit.refs,
     parents |-> commit.parents, nodeType |-> NodeTypeOf(commit.refs)]

\* ParentLane that keeps every unreserved parent, first or not, in the
\* commit's own lane.
ParentLaneSameLane(st, parentSha, pi, lane) ==
    IF HasLane(st.shaToLane, parentSha)
    THEN [lane |-> LaneOf(st.shaToLane, parentSha),
          activeLanes |-> st.activeLanes, shaToLane |-> st.shaToLane]
    ELSE [lane |-> lane,
          activeLanes |-> SetActive(st.activeLanes, lane, parentSha),
          shaToLane |-> SetLaneOf(st.shaToLane, parentSha, lane)]

\* The lane of one parent and the lane table after reserving it.
ParentLane(st, parentSha, pi, lane) ==
    IF HasLane(st.shaToLane, parentSha)
    THEN [lane |-> LaneOf(st.shaToLane, parentSha),
          activeLanes |-> st.activeLanes, shaToLane |-> st.shaToLane]
    ELSE IF pi = 0
    THEN [lane |-> lane,
          activeLanes |-> SetActive(st.activeLanes, lane, parentSha),
          shaToLane |-> SetLaneOf(st.shaToLane, parentSha, lane)]
    ELSE LET f == FirstFreeLane(st.activeLanes)
         IN [lane |-> f.lane,
             activeLanes |-> SetActive(f.activeLanes, f.lane, parentSha),
             shaToLane |-> SetLaneOf(st.shaToLane, parentSha, f.lane)]

\* EdgeTypeOf with the comparison off by one: every parent edge is a Merge.
EdgeTypeAllMerge(pi) == IF pi >= 0 THEN "Merge" ELSE "Normal"

\* edgeType: pi > 0 ? 'Merge' : 'Normal'
EdgeTypeOf(pi) == IF pi > 0 THEN "Merge" ELSE "Normal"

\* The loop over commit.parents, from parent index pi (0-based) on.
RECURSIVE ConnectParents(_, _, _, _, _, _)
ConnectParents(st, commit, lane, row, colorIndex, pi) ==
    IF pi >= Len(commit.parents) THEN st
    ELSE
        LET parentSha == commit.parents[pi + 1]
            p == ParentLane(st, parentSha, pi, lane)
            edge == [fromSha |-> commit.sha, toSha |-> parentSha,
                     fromLane |-> lane, toLane |-> p.lane,
                     fromRow |-> row, toRow |-> -1,
                     edgeType |-> EdgeTypeOf(pi), colorIndex |-> colorIndex]
        IN ConnectParents([activeLanes |-> p.activeLanes, shaToLane |-> p.shaToLane,
                           nodes |-> st.nodes, edges |-> Append(st.edges, edge)],
                          commit, lane, row, colorIndex, pi + 1)

\* ResolveLane that forgets the reservation made by a child.
ResolveLaneUnreserved(st, commit) == FirstFreeLane(st.activeLanes)

\* The lane of the commit of one row: its reservation, else the first free lane.
ResolveLane(st, commit) ==
    IF HasLane(st.shaToLane, commit.sha)
    THEN [lane |-> LaneOf(st.shaToLane, commit.sha), activeLanes |-> st.activeLanes]
    ELSE FirstFreeLane(st.activeLanes)

\* FreeLane that frees the lane of every commit, also when the first parent
\* has just been reserved in it.
FreeLaneAlways(al, commit, lane) == SetActive(al, lane, NoSha)

\* Lanes are freed for commits with no parents continuing.
FreeLane(al, commit, lane) ==
    IF Len(commit.parents) = 0 THEN SetActive(al, lane, NoSha) ELSE al

\* One iteration of the row loop.
ProcessCommit(st, commit, row) ==
    LET r == ResolveLane(st, commit)
        lane == r.lane
        occupied == SetActive(r.activeLanes, lane, NoSha)
        colorIndex == ColorIndex(commit.refs, lane)
        node == NewNode(commit, lane, row, colorIndex)
        st1 == [activeLanes |-> occupied, shaToLane |-> st.shaToLane,
                nodes |-> Append(st.nodes, node), edges |-> st.edges]
        st2 == ConnectParents(st1, commit, lane, row, colorIndex, 0)
    IN [st2 EXCEPT !.activeLanes = FreeLane(@, commit, lane)]

\* shaToRow.get(sha): the index of the last node bearing the identity, or -1.
ShaToRow(nodes, sha) ==
    IF \E i \in 1..Len(nodes) : nodes[i].sha = sha
    THEN (CHOOSE i \in 1..Len(nodes) :
             nodes[i].sha = sha /\ \A j \in (i + 1)..Len(nodes) : nodes[j].sha # sha) - 1
    ELSE -1

\* ResolveEdge that leaves every edge the color of the commit it leaves.
ResolveEdgeKeepsColor(nodes, e) ==
    LET resolvedRow == ShaToRow(nodes, e.toSha)
    IN IF resolvedRow = -1 THEN e ELSE [e EXCEPT !.toRow = resolvedRow]

\* edge.toRow = resolvedRow; a Normal edge takes the parent node's color
ResolveEdge(nodes, e) ==
    LET resolvedRow == ShaToRow(nodes, e.toSha)
    IN IF resolvedRow = -1 THEN e
       ELSE [e EXCEPT !.toRow = resolvedRow,
                      !.colorIndex = IF e.edgeType = "Normal"
                                     THEN nodes[resolvedRow + 1].colorIndex ELSE @]

IsResolved(e) == e.toRow >= 0

\* ResolveEdges without the final filter: unresolved edges stay in the output.
ResolveEdgesKeepAll(nodes, edges) ==
    [i \in 1..Len(edges) |-> ResolveEdge(nodes, edges[i])]

\* Second pass: resolve toRow of every edge, drop the unresolved ones.
ResolveEdges(nodes, edges) ==
    SelectSeq([i \in 1..Len(edges) |-> ResolveEdge(nodes, edges[i])], IsResolved)

RECURSIVE AssignLanes(_, _, _)
AssignLanes(st, commits, row) ==
    IF row >= Len(commits) THEN st
    ELSE AssignLanes(ProcessCommit(st, commits[row + 1], row), commits, row + 1)

LayoutOf(st, commits) ==
    [nodes |-> st.nodes, edges |-> ResolveEdges(st.nodes, st.edges),
     totalCount |-> Len(commits)]

computeGraphLayoutTS(raw) ==
    LET commits == parseLogOutput(raw)
    IN LayoutOf(AssignLanes(EmptyEngine, commits, 0), commits)

\* ------------------------------------------------------------ the git side
\* %d of the commit HEAD points at; other commits carry no decoration.
Decoration(hd, i) ==
    IF i = hd
    THEN <<[head |-> "arrow", tag |-> FALSE, path |-> "heads", name |-> "main"]>>
    ELSE <<>>

\* One record of LOG_FORMAT for commit i of repository r.
RawRecord(r, hd, i) ==
    [nfields |-> LogFormatFields, sha |-> Sha(i),
     parents |-> [k \in 1..Len(r[i]) |-> Sha(r[i][k])],
     deco |-> Decoration(hd, i)]

\* git log --topo-order --skip=<skip> -n <count>
getLogRaw(r, hd, skip, count) ==
    [k \in 1..(Min(Len(r), skip + count) - Min(Len(r), skip)) |-> RawRecord(r, hd, skip + k)]

\* git rev-list --count
getTotalCommitCount(r) == Len(r)

\* ---------------------------------------------------------------- state
VARIABLES
    repo,           \* the commit DAG, in log order
    head,           \* index of the commit HEAD resolves to, 0 when it does not
    currentLayout,  \* GraphDataProvider.currentLayout (Null or Some(layout))
    layoutHandle,   \* GraphDataProvider.layoutHandle
    totalCount,     \* GraphDataProvider.totalCount
    loadedPages,    \* GraphDataProvider.loadedPages
    lastCall,       \* the last provider call and how it ended
    raw,            \* computeGraphLayoutTS: the buffer being laid out
    row,            \* computeGraphLayoutTS: the loop counter
    engine,         \* computeGraphLayoutTS: activeLanes, shaToLane, nodes, edges
    layout,         \* computeGraphLayoutTS: the returned layout, once returned
    app,            \* webview GraphApp: nodes, edges, totalCount, loadedCount
    vscroll,        \* webview VirtualScroll: totalCount, loaded range, requestPending
    toExt,          \* messages posted by the webview, not yet received
    toView,         \* messages posted by the extension, not yet received
    handlers,       \* GraphViewProvider: message handlers waiting on the provider
    bridge,         \* wasmBridge: the last operation called directly and its result
    calls           \* GraphDataProvider: the calls started step by step, in start order

vars == <<repo, head, currentLayout, layoutHandle, totalCount, loadedPages,
          lastCall, raw, row, engine, layout, app, vscroll, toExt, toView, handlers,
          bridge, calls>>

providerVars == <<currentLayout, layoutHandle, totalCount, loadedPages, lastCall>>
layoutVars == <<raw, row, engine, layout>>
viewVars == <<app, vscroll, toExt, toView, handlers>>

NoCall == [op |-> "none", outcome |-> "none", head |-> NoSha, injected |-> FALSE, skip |-> -1,
           changes |-> "notcalled"]

\* No bridge operation has been called directly.
NoBridgeCall == [op |-> "none", wasm |-> "absent", rawLog |-> <<>>,
                 threw |-> FALSE, value |-> <<>>]

ProviderInit ==
    /\ currentLayout = Null
    /\ layoutHandle = 0
    /\ totalCount = 0
    /\ loadedPages = 0
    /\ lastCall = NoCall
    /\ bridge = NoBridgeCall
    /\ calls = <<>>

\* GraphApp and VirtualScroll as their constructors leave them, before the
\* webview has posted anything.
ViewFields ==
    /\ app = [nodes |-> <<>>, edges |-> <<>>, totalCount |-> 0, loadedCount |-> 0]
    /\ vscroll = [totalCount |-> 0, loadedRowMin |-> 0, loadedRowMax |-> 0,
                  requestPending |-> FALSE]

\* The view is not part of the run.
NoView ==
    /\ ViewFields
    /\ toExt = <<>>
    /\ toView = <<>>
    /\ handlers = <<>>

\* ------------------------------------------- computeGraphLayoutTS, by steps
\* The buffers handed to the layout: any selection of the commits of a
\* repository, in any order and with repetitions; the windows of the log
\* are among them.
Selections(n) == SeqsUpTo(1..n, MaxCommits)

LayoutInit ==
    /\ repo \in Repos
    /\ head \in 0..Len(repo)
    /\ \E sel \in Selections(Len(repo)) :
          raw = [k \in 1..Len(sel) |-> RawRecord(repo, head, sel[k])]
    /\ row = 0
    /\ engine = EmptyEngine
    /\ layout = Null
    /\ ProviderInit
    /\ NoView

\* One iteration of the loop over the decoded commits.
LayoutRow ==
    /\ layout = Null
    /\ row < Len(parseLogOutput(raw))
    /\ engine' = ProcessCommit(engine, parseLogOutput(raw)[row + 1], row)
    /\ row' = row + 1
    /\ UNCHANGED <<repo, head, bridge, calls, raw, layout, providerVars, viewVars>>

\* The second pass and the return.
LayoutReturn ==
    /\ layout = Null
    /\ row >= Len(parseLogOutput(raw))
    /\ layout' = Some(LayoutOf(engine, parseLogOutput(raw)))
    /\ UNCHANGED <<repo, head, bridge, calls, raw, row, engine, providerVars, viewVars>>

LayoutNext == LayoutRow \/ LayoutReturn

SpecLayout == LayoutInit /\ [][LayoutNext]_vars

\* --------------------------------------------- layout engine: properties
Commits == parseLogOutput(raw)
Returned == layout # Null
L == layout[1]
NodeShas(nodes) == {nodes[i].sha : i \in 1..Len(nodes)}

\* The engine's precondition on its input: identities are unique and no
\* commit is preceded by one of its parents (git log --topo-order).
ParentsAfterChildren(commits) ==
    \A j \in 1..Len(commits) : \A i \in 1..j :
        /\ (i # j => commits[i].sha # commits[j].sha)
        /\ \A k \in 1..Len(commits[j].parents) : commits[j].parents[k] # commits[i].sha

\* C1: in every returned layout each edge's toSha is the identity of a node
\* of that layout and its toRow is that node's row; no edge to an identity
\* absent from the window is returned and no returned toRow is negative.
C1_EdgesResolved ==
    Returned =>
        \A k \in 1..Len(L.edges) :
            /\ L.edges[k].toRow >= 0
            /\ \E i \in 1..Len(L.nodes) :
                  /\ L.nodes[i].sha = L.edges[k].toSha
                  /\ L.nodes[i].row = L.edges[k].toRow

\* A returned layout that kept one edge and dropped another.
C1_Witness ==
    /\ Returned
    /\ Len(L.edges) > 0
    /\ \E k \in 1..Len(engine.edges) : engine.edges[k].toSha \notin NodeShas(L.nodes)

\* C2: the node at list position i is the i-th decoded commit record and has
\* row i (0-based): the rows of one window are exactly 0..n-1.
C2_RowsArePositions ==
    Returned =>
        /\ Len(L.nodes) = Len(Commits)
        /\ \A i \in 1..Len(L.nodes) :
              /\ L.nodes[i].sha = Commits[i].sha
              /\ L.nodes[i].row = i - 1

C2_Witness == Returned /\ Len(L.nodes) = MaxCommits

\* The edges of the returned layout that leave the commit of node n.
EdgesFrom(edges, sha) == {k \in 1..Len(edges) : edges[k].fromSha = sha}

\* C3 as stated: the first-parent edge always has the commit's own lane as
\* toLane, and the edge to every additional parent has a toLane different from
\* the commit's lane and from the lane of every other parent of the commit.
C3_Original ==
    (Returned /\ ParentsAfterChildren(Commits)) =>
        \A i \in 1..Len(L.nodes) : \A k \in EdgesFrom(L.edges, L.nodes[i].sha) :
            IF L.edges[k].edgeType = "Normal"
            THEN L.edges[k].toLane = L.nodes[i].lane
            ELSE /\ L.edges[k].toLane # L.nodes[i].lane
                 /\ \A m \in EdgesFrom(L.edges, L.nodes[i].sha) :
                       m # k => L.edges[m].toLane # L.edges[k].toLane

\* The identity was named as a parent by a commit of an earlier row.
ReservedBefore(commits, j, sha) ==
    \E i \in 1..(j - 1) : \E k \in 1..Len(commits[i].parents) : commits[i].parents[k] = sha

\* All parent edges the engine created for the commit of row j (1-based),
\* in parent order, before unresolved ones are dropped.
EngineEdgesFrom(sha) == SelectSeq(engine.edges, LAMBDA e : e.fromSha = sha)

\* C3 (amended): for input in parents-after-children order, the first-parent
\* edge has the commit's own lane as toLane unless an earlier commit already
\* reserved a lane for that parent; the toLane of the edge to an additional
\* parent differs from the toLane of every other parent edge of the commit,
\* and from the commit's own lane whenever the first parent inherited it.
C3_FirstParentInherits ==
    (Returned /\ ParentsAfterChildren(Commits)) =>
        \A j \in 1..Len(Commits) :
            LET es == EngineEdgesFrom(Commits[j].sha)
                own == L.nodes[j].lane
            IN /\ Len(es) = Len(Commits[j].parents)
               /\ \A k \in 1..Len(es) :
                     /\ es[k].toSha = Commits[j].parents[k]
                     /\ (k = 1 /\ ~ReservedBefore(Commits, j, es[k].toSha))
                            => es[k].toLane = own
                     /\ k > 1 =>
                            /\ \A m \in 1..Len(es) : m # k => es[m].toLane # es[k].toLane
                            /\ es[1].toLane = own => es[k].toLane # own

\* A window with a merge whose first parent inherits the lane and a commit
\* whose first parent had been reserved by an earlier commit.
C3_Witness ==
    /\ Returned
    /\ ParentsAfterChildren(Commits)
    /\ \E j \in 1..Len(Commits) :
          /\ Len(Commits[j].parents) > 0
          /\ ReservedBefore(Commits, j, Commits[j].parents[1])
          /\ EngineEdgesFrom(Commits[j].sha)[1].toLane # L.nodes[j].lane
    /\ \E j \in 1..Len(Commits) :
          /\ Len(Commits[j].parents) > 1
          /\ EngineEdgesFrom(Commits[j].sha)[1].toLane = L.nodes[j].lane

HasEmpty(al) == \E i \in 1..Len(al) : al[i] = NoSha
LowestEmpty(al) ==
    (CHOOSE i \in 1..Len(al) : al[i] = NoSha /\ \A j \in 1..(i - 1) : al[j] # NoSha) - 1

\* C4: after a commit with zero parents is processed in lane L, lane L is
\* empty in activeLanes; a commit without a reservation is placed in the
\* lowest-index empty lane, and the table grows by exactly one lane for it
\* only when no lane is empty.
C4_LaneRecycling ==
    [][row' = row + 1 =>
        LET c == Commits[row + 1]
            n == engine'.nodes[row + 1]
            al == engine.activeLanes
        IN /\ (Len(c.parents) = 0 => engine'.activeLanes[n.lane + 1] = NoSha)
           /\ ~HasLane(engine.shaToLane, c.sha) =>
                 /\ HasEmpty(al) => n.lane = LowestEmpty(al)
                 /\ ~HasEmpty(al) => n.lane = Len(al)
                 /\ Len(c.parents) <= 1 =>
                       Len(engine'.activeLanes) = Len(al) + (IF HasEmpty(al) THEN 0 ELSE 1)
    ]_vars

\* A lane freed by a root commit has been reused by a later commit, and the
\* table has grown beyond one lane.
C4_Witness ==
    /\ Len(engine.activeLanes) > 1
    /\ \E i, j \in 1..Len(engine.nodes) :
          /\ i < j
          /\ engine.nodes[i].parents = <<>>
          /\ engine.nodes[j].lane = engine.nodes[i].lane
          /\ ~ReservedBefore(Commits, j, engine.nodes[j].sha)

\* C5: for input in parents-after-children order, a commit with two distinct
\* parents that are both nodes of the window has exactly two edges leaving
\* it, with different toLane values, and exactly one of them is a Merge
\* edge: the one to the second parent.
C5_MergeEdges ==
    (Returned /\ ParentsAfterChildren(Commits)) =>
        \A i \in 1..Len(L.nodes) :
            LET ps == L.nodes[i].parents
                es == EdgesFrom(L.edges, L.nodes[i].sha)
            IN (Len(ps) = 2 /\ ps[1] # ps[2] /\ {ps[1], ps[2]} \subseteq NodeShas(L.nodes)) =>
                  /\ Cardinality(es) = 2
                  /\ \A k, m \in es : k # m => L.edges[k].toLane # L.edges[m].toLane
                  /\ Cardinality({k \in es : L.edges[k].edgeType = "Merge"}) = 1
                  /\ \A k \in es : L.edges[k].edgeType = "Merge" <=> L.edges[k].toSha = ps[2]

C5_Witness ==
    /\ Returned
    /\ ParentsAfterChildren(Commits)
    /\ \E i \in 1..Len(L.nodes) :
          /\ Len(L.nodes[i].parents) = 2
          /\ {L.nodes[i].parents[1], L.nodes[i].parents[2]} \subseteq NodeShas(L.nodes)
          /\ Cardinality(EdgesFrom(L.edges, L.nodes[i].sha)) = 2

\* Record i has as its only parent the identity of record i+1; the last has none.
IsChain(commits) ==
    /\ Len(commits) >= 1
    /\ \A i \in 1..Len(commits) :
          commits[i].parents = IF i < Len(commits) THEN <<commits[i + 1].sha>> ELSE <<>>

\* C6: a chain of N >= 1 commits is laid out as N nodes, node i at row i and
\* lane 0, and N-1 Normal edges, the i-th from row i to row i+1 in lane 0.
C6_LinearChain ==
    (Returned /\ IsChain(Commits)) =>
        /\ Len(L.nodes) = Len(Commits)
        /\ \A i \in 1..Len(L.nodes) : L.nodes[i].row = i - 1 /\ L.nodes[i].lane = 0
        /\ Len(L.edges) = Len(Commits) - 1
        /\ \A k \in 1..Len(L.edges) :
              /\ L.edges[k].edgeType = "Normal"
              /\ L.edges[k].fromSha = Commits[k].sha
              /\ L.edges[k].toSha = Commits[k + 1].sha
              /\ L.edges[k].fromRow = k - 1 /\ L.edges[k].toRow = k
              /\ L.edges[k].fromLane = 0 /\ L.edges[k].toLane = 0

C6_Witness == Returned /\ IsChain(Commits) /\ Len(Commits) = MaxCommits

\* ------------------------------------------------------ GraphDataProvider
IsVirtualSha(sha) == sha = WORKING_DIR_SHA \/ sha = COMMIT_INDEX_SHA

\* nodes.find(n => n.sha === sha): the 1-based position of the first match, 0 if none
FindNode(nodes, sha) ==
    IF \E i \in 1..Len(nodes) : nodes[i].sha = sha
    THEN CHOOSE i \in 1..Len(nodes) :
            nodes[i].sha = sha /\ \A j \in 1..(i - 1) : nodes[j].sha # sha
    ELSE 0

\* HeadLane that never looks the HEAD node up.
HeadLaneZero(lay, headSha) == 0

\* let headLane = 0; if (headNode) { headLane = headNode.lane; }
HeadLane(lay, headSha) ==
    IF FindNode(lay.nodes, headSha) # 0
    THEN lay.nodes[FindNode(lay.nodes, headSha)].lane
    ELSE 0

\* The two synthetic nodes and edges, built against the unshifted layout.
\* (The subject texts, which carry the change counts, are not modelled.)
buildVirtualNodes(lay, headSha) ==
    LET headLane == HeadLane(lay, headSha)
        indexNode == [sha |-> COMMIT_INDEX_SHA, lane |-> headLane, row |-> 0,
                      colorIndex |-> 0, refs |-> <<>>, parents |-> <<headSha>>,
                      nodeType |-> "CommitIndex"]
        workingNode == [sha |-> WORKING_DIR_SHA, lane |-> headLane, row |-> 1,
                        colorIndex |-> 0, refs |-> <<>>, parents |-> <<COMMIT_INDEX_SHA>>,
                        nodeType |-> "WorkingTree"]
        e1 == [fromSha |-> WORKING_DIR_SHA, toSha |-> COMMIT_INDEX_SHA,
               fromLane |-> headLane, toLane |-> headLane,
               fromRow |-> 1, toRow |-> 0, edgeType |-> "Normal", colorIndex |-> 0]
        e2 == [fromSha |-> COMMIT_INDEX_SHA, toSha |-> headSha,
               fromLane |-> headLane, toLane |-> headLane,
               fromRow |-> 0, toRow |-> 2, edgeType |-> "Normal", colorIndex |-> 0]
    IN [nodes |-> <<indexNode, workingNode>>, edges |-> <<e1, e2>>]

\* ShiftRows that moves the nodes but forgets the edges.
ShiftNodeRowsOnly(lay) ==
    [lay EXCEPT !.nodes = [i \in 1..Len(lay.nodes) |-> [lay.nodes[i] EXCEPT !.row = @ + 2]]]

\* node.row += 2; edge.fromRow += 2; edge.toRow += 2
ShiftRows(lay) ==
    [lay EXCEPT
        !.nodes = [i \in 1..Len(lay.nodes) |-> [lay.nodes[i] EXCEPT !.row = @ + 2]],
        !.edges = [i \in 1..Len(lay.edges) |->
                      [lay.edges[i] EXCEPT !.fromRow = @ + 2, !.toRow = @ + 2]]]

\* The Index->HEAD edge is pointed at the shifted HEAD node, when there is one.
FixIndexToHead(vedges, nodes, headSha) ==
    LET h == FindNode(nodes, headSha)
        k == IF \E i \in 1..Len(vedges) : vedges[i].toSha = headSha
             THEN CHOOSE i \in 1..Len(vedges) :
                     vedges[i].toSha = headSha
                     /\ \A j \in 1..(i - 1) : vedges[j].toSha # headSha
             ELSE 0
    IN IF h = 0 \/ k = 0 THEN vedges
       ELSE [vedges EXCEPT ![k] = [@ EXCEPT !.toRow = nodes[h].row,
                                            !.toLane = nodes[h].lane]]

\* this.totalCount += 2, off by one
InjectedCountPlusOne(count) == count + 1

\* this.totalCount += 2
InjectedCount(count) == count + 2

\* The try block of loadInitialData: the layout with the synthetic nodes.
InjectVirtual(lay, headSha) ==
    LET virt == buildVirtualNodes(lay, headSha)
        shifted == ShiftRows(lay)
    IN [nodes |-> virt.nodes \o shifted.nodes,
        edges |-> FixIndexToHead(virt.edges, shifted.nodes, headSha) \o shifted.edges,
        totalCount |-> shifted.totalCount]

\* status?.head: NoSha when getRepoStatus failed or HEAD does not resolve
StatusHead(statusOk) == IF statusOk /\ head # 0 THEN Sha(head) ELSE NoSha

\* How the staged/unstaged/untracked queries of buildVirtualNodes can end:
\* with the lists, with a non-zero exit code, which getStagedFiles,
\* getUnstagedFiles and getUntrackedFiles turn into an empty list, or with
\* exec rejecting (the process cannot be spawned, or times out).
ChangeOutcomes == {"lists", "exitcode", "reject"}

\* Injects that goes on when buildVirtualNodes has thrown.
InjectsDespiteReject(headSha, changes) == headSha # NoSha

\* if (status?.head) { try { await this.buildVirtualNodes(..); .. } catch {} }
Injects(headSha, changes) == headSha # NoSha /\ changes # "reject"

\* loadInitialData.  statusOk: getRepoStatus resolved; logOk: git log
\* succeeded; changes: how the staged/unstaged/untracked queries ended.
LoadInitialData(statusOk, logOk, changes) ==
    LET count == getTotalCommitCount(repo)
        headSha == StatusHead(statusOk)
        real == computeGraphLayoutTS(getLogRaw(repo, head, 0, PageSize))
        inject == Injects(headSha, changes)
        lay == IF inject THEN InjectVirtual(real, headSha) ELSE real
        total == IF inject THEN InjectedCount(count) ELSE count
    IN IF ~logOk
       THEN /\ totalCount' = count
            /\ lastCall' = [op |-> "loadInitialData", outcome |-> "throw",
                            head |-> headSha, injected |-> FALSE, skip |-> 0,
                            changes |-> "notcalled"]
            /\ UNCHANGED <<currentLayout, layoutHandle, loadedPages>>
       ELSE /\ currentLayout' = Some([lay EXCEPT !.totalCount = total])
            /\ totalCount' = total
            /\ loadedPages' = 1
            /\ lastCall' = [op |-> "loadInitialData", outcome |-> "layout",
                            head |-> headSha, injected |-> inject, skip |-> 0,
                            changes |-> IF headSha # NoSha THEN changes ELSE "notcalled"]
            /\ UNCHANGED layoutHandle

\* AppendPage that lays the page out again with the synthetic nodes in front.
AppendPageReinject(cur, appendResult, total) ==
    LET again == InjectVirtual(appendResult, Sha(1))
    IN IF cur = Null THEN Some([again EXCEPT !.totalCount = total])
       ELSE Some([nodes |-> cur[1].nodes \o again.nodes,
                  edges |-> cur[1].edges \o again.edges,
                  totalCount |-> total])

\* nodes.push(...appendResult.nodes); edges.push(...appendResult.edges);
\* currentLayout.totalCount = this.totalCount
AppendPage(cur, appendResult, total) ==
    IF cur = Null THEN Some([appendResult EXCEPT !.totalCount = total])
    ELSE Some([nodes |-> cur[1].nodes \o appendResult.nodes,
               edges |-> cur[1].edges \o appendResult.edges,
               totalCount |-> total])

\* Without the accelerated module appendToLayout recomputes the page alone.
appendToLayout(handle, rawLog) == computeGraphLayoutTS(rawLog)

LoadNextPage(logOk) ==
    LET skip == loadedPages * PageSize
    IN IF skip >= totalCount
       THEN /\ lastCall' = [op |-> "loadNextPage", outcome |-> "null",
                            head |-> NoSha, injected |-> FALSE, skip |-> -1,
                            changes |-> "notcalled"]
            /\ UNCHANGED <<currentLayout, layoutHandle, totalCount, loadedPages>>
       ELSE IF ~logOk
       THEN /\ lastCall' = [op |-> "loadNextPage", outcome |-> "throw",
                            head |-> NoSha, injected |-> FALSE, skip |-> skip,
                            changes |-> "notcalled"]
            /\ UNCHANGED <<currentLayout, layoutHandle, totalCount, loadedPages>>
       ELSE /\ currentLayout' =
                  AppendPage(currentLayout,
                             appendToLayout(layoutHandle, getLogRaw(repo, head, skip, PageSize)),
                             totalCount)
            /\ loadedPages' = loadedPages + 1
            /\ lastCall' = [op |-> "loadNextPage", outcome |-> "layout",
                            head |-> NoSha, injected |-> FALSE, skip |-> skip,
                            changes |-> "notcalled"]
            /\ UNCHANGED <<layoutHandle, totalCount>>

\* reset() that forgets to clear the commit count.
ResetKeepsTotal ==
    /\ layoutHandle' = 0
    /\ currentLayout' = Null
    /\ loadedPages' = 0
    /\ totalCount' = totalCount
    /\ lastCall' = [op |-> "reset", outcome |-> "none",
                    head |-> NoSha, injected |-> FALSE, skip |-> -1,
                    changes |-> "notcalled"]

\* reset() and dispose()
Reset ==
    /\ layoutHandle' = 0
    /\ currentLayout' = Null
    /\ loadedPages' = 0
    /\ totalCount' = 0
    /\ lastCall' = [op |-> "reset", outcome |-> "none",
                    head |-> NoSha, injected |-> FALSE, skip |-> -1,
                    changes |-> "notcalled"]

Init ==
    /\ repo \in Repos
    /\ head \in 0..Len(repo)
    /\ ProviderInit
    /\ raw = <<>>
    /\ row = 0
    /\ engine = EmptyEngine
    /\ layout = Null
    /\ NoView

CallLoadInitialData ==
    /\ \E statusOk, logOk \in BOOLEAN, changes \in ChangeOutcomes :
          LoadInitialData(statusOk, logOk, changes)
    /\ UNCHANGED <<repo, head, bridge, calls, layoutVars, viewVars>>

CallLoadNextPage ==
    /\ \E logOk \in BOOLEAN : LoadNextPage(logOk)
    /\ UNCHANGED <<repo, head, bridge, calls, layoutVars, viewVars>>

CallReset == Reset /\ UNCHANGED <<repo, head, bridge, calls, layoutVars, viewVars>>

Next == CallLoadInitialData \/ CallLoadNextPage \/ CallReset

Spec == Init /\ [][Next]_vars

\* --------------------------------------------- paging session: properties
Cur == currentLayout[1]

\* The layout computeGraphLayout makes of the first page of the log.
FirstPageLayout == computeGraphLayoutTS(getLogRaw(repo, head, 0, PageSize))

\* loadInitialData has just returned a layout.
InitialReturned == lastCall.op = "loadInitialData" /\ lastCall.outcome = "layout"

VirtualNodeCount(nodes) == Cardinality({i \in 1..Len(nodes) : IsVirtualSha(nodes[i].sha)})
VirtualEdgeCount(edges) ==
    Cardinality({i \in 1..Len(edges) :
                    IsVirtualSha(edges[i].fromSha) \/ IsVirtualSha(edges[i].toSha)})

\* The accumulated layout starts with the staged-index and working-tree nodes.
HasVirtualNodes(lay) ==
    /\ Len(lay.nodes) >= 2
    /\ lay.nodes[1].sha = COMMIT_INDEX_SHA
    /\ lay.nodes[2].sha = WORKING_DIR_SHA

\* C7: when loadInitialData injects the virtual state, every real node's row
\* and every real edge's fromRow and toRow is its value in the layout
\* computed from the log plus 2, and nothing else of a real node or edge
\* (lane, identity, edge type) is changed.
C7_ShiftByTwo ==
    (InitialReturned /\ lastCall.injected) =>
        LET base == FirstPageLayout
        IN /\ Len(Cur.nodes) = Len(base.nodes) + 2
           /\ Len(Cur.edges) = Len(base.edges) + 2
           /\ \A i \in 1..Len(base.nodes) :
                 Cur.nodes[i + 2] = [base.nodes[i] EXCEPT !.row = @ + 2]
           /\ \A k \in 1..Len(base.edges) :
                 Cur.edges[k + 2] =
                     [base.edges[k] EXCEPT !.fromRow = @ + 2, !.toRow = @ + 2]

\* An injected layout with a real edge in it.
C7_Witness ==
    /\ InitialReturned
    /\ lastCall.injected
    /\ HasVirtualNodes(Cur)
    /\ Len(FirstPageLayout.edges) > 0

\* C8: after loadInitialData the reported totalCount is the commit count of
\* the repository plus 2 exactly when the two synthetic nodes were injected;
\* without a resolvable HEAD it is the commit count and the layout holds no
\* synthetic node and no synthetic edge.
C8_TotalCount ==
    InitialReturned =>
        /\ Cur.totalCount = totalCount
        /\ (totalCount = getTotalCommitCount(repo) + 2) <=> HasVirtualNodes(Cur)
        /\ ~HasVirtualNodes(Cur) =>
              /\ totalCount = getTotalCommitCount(repo)
              /\ VirtualNodeCount(Cur.nodes) = 0
              /\ VirtualEdgeCount(Cur.edges) = 0
        /\ lastCall.head = NoSha => ~HasVirtualNodes(Cur)

\* Both outcomes have been seen on one repository: here the one without HEAD.
C8_Witness ==
    /\ InitialReturned
    /\ Len(repo) > 0
    /\ head # 0
    /\ lastCall.head = NoSha
    /\ totalCount = Len(repo)

\* C9: in a session the synthetic nodes are injected at most once, by
\* loadInitialData: the accumulated layout holds at most one staged-index
\* and one working-tree node, as its first two entries, and a loadNextPage
\* adds no synthetic node, shifts no row and does not change totalCount.
C9_InjectedOnce ==
    [][/\ currentLayout' # Null =>
             LET nodes == currentLayout'[1].nodes
             IN /\ \A i \in 1..Len(nodes) : IsVirtualSha(nodes[i].sha) => i <= 2
                /\ VirtualNodeCount(nodes) \in {0, 2}
                /\ VirtualNodeCount(nodes) = 2 => HasVirtualNodes(currentLayout'[1])
       /\ lastCall'.op = "loadNextPage" =>
             /\ totalCount' = totalCount
             /\ currentLayout' # Null => VirtualNodeCount(currentLayout'[1].nodes) =
                   (IF currentLayout = Null THEN 0 ELSE VirtualNodeCount(Cur.nodes))
             /\ currentLayout # Null =>
                   /\ Len(currentLayout'[1].nodes) >= Len(Cur.nodes)
                   /\ SubSeq(currentLayout'[1].nodes, 1, Len(Cur.nodes)) = Cur.nodes
                   /\ SubSeq(currentLayout'[1].edges, 1, Len(Cur.edges)) = Cur.edges
             /\ lastCall'.outcome = "layout" => currentLayout'[1].totalCount = totalCount
      ]_vars

\* A page has been appended behind an injected first page.
C9_Witness ==
    /\ lastCall.op = "loadNextPage"
    /\ lastCall.outcome = "layout"
    /\ currentLayout # Null
    /\ HasVirtualNodes(Cur)
    /\ Len(Cur.nodes) > PageSize + 2

\* C10 as stated: whenever the synthetic nodes are injected both have the
\* lane of the real HEAD node, the staged-index node is at row 0, the
\* working-tree node at row 1 and the real HEAD node at row 2.
C10_Original ==
    (InitialReturned /\ lastCall.injected) =>
        /\ Cur.nodes[1].sha = COMMIT_INDEX_SHA /\ Cur.nodes[1].row = 0
        /\ Cur.nodes[2].sha = WORKING_DIR_SHA /\ Cur.nodes[2].row = 1
        /\ \E i \in 1..Len(Cur.nodes) :
              /\ Cur.nodes[i].sha = lastCall.head
              /\ Cur.nodes[i].row = 2
              /\ Cur.nodes[1].lane = Cur.nodes[i].lane
              /\ Cur.nodes[2].lane = Cur.nodes[i].lane

\* C10 (amended): whenever the synthetic nodes are injected the staged-index
\* node is at row 0 and the working-tree node at row 1; if the HEAD commit
\* is in the first page both have its lane and the HEAD node is at its
\* position in the log plus 2 (row 2 exactly when HEAD is the first commit
\* of the log); if it is not, both are in lane 0.
C10_VirtualPlacement ==
    (InitialReturned /\ lastCall.injected) =>
        /\ Cur.nodes[1].sha = COMMIT_INDEX_SHA /\ Cur.nodes[1].row = 0
        /\ Cur.nodes[2].sha = WORKING_DIR_SHA /\ Cur.nodes[2].row = 1
        /\ \A i \in 1..Len(Cur.nodes) :
              Cur.nodes[i].sha = lastCall.head =>
                  /\ i = head + 2
                  /\ Cur.nodes[i].row = (head - 1) + 2
                  /\ (Cur.nodes[i].row = 2 <=> head = 1)
                  /\ Cur.nodes[1].lane = Cur.nodes[i].lane
                  /\ Cur.nodes[2].lane = Cur.nodes[i].lane
        /\ (head <= PageSize) <=> (\E i \in 1..Len(Cur.nodes) : Cur.nodes[i].sha = lastCall.head)
        /\ head > PageSize => Cur.nodes[1].lane = 0 /\ Cur.nodes[2].lane = 0

\* The synthetic nodes sit in a lane other than 0, above a HEAD commit that
\* is not the first commit of the log.
C10_Witness ==
    /\ InitialReturned
    /\ lastCall.injected
    /\ head > 1
    /\ Cur.nodes[1].lane > 0
    /\ \E i \in 1..Len(Cur.nodes) :
          Cur.nodes[i].sha = lastCall.head /\ Cur.nodes[i].lane = Cur.nodes[1].lane

\* C11: in every layout returned by loadInitialData that holds the synthetic
\* nodes there are exactly two synthetic edges, working-tree to staged-index
\* and staged-index to HEAD, and the staged-index to HEAD edge ends at the
\* row and lane of the shifted HEAD node, which is in the layout.
C11_IndexEdgeTargetsHead ==
    (InitialReturned /\ lastCall.injected) =>
        /\ VirtualEdgeCount(Cur.edges) = 2
        /\ Cur.edges[1].fromSha = WORKING_DIR_SHA
        /\ Cur.edges[1].toSha = COMMIT_INDEX_SHA
        /\ Cur.edges[2].fromSha = COMMIT_INDEX_SHA
        /\ Cur.edges[2].toSha = lastCall.head
        /\ \E i \in 1..Len(Cur.nodes) :
              /\ Cur.nodes[i].sha = lastCall.head
              /\ Cur.edges[2].toRow = Cur.nodes[i].row
              /\ Cur.edges[2].toLane = Cur.nodes[i].lane

\* The part of C11 the code keeps: two synthetic edges, and the second one
\* ends at the HEAD node whenever the first page holds it.
C11_WhenHeadInPage ==
    (InitialReturned /\ lastCall.injected) =>
        /\ VirtualEdgeCount(Cur.edges) = 2
        /\ Cur.edges[2].toSha = lastCall.head
        /\ \A i \in 1..Len(Cur.nodes) :
              Cur.nodes[i].sha = lastCall.head =>
                  /\ Cur.edges[2].toRow = Cur.nodes[i].row
                  /\ Cur.edges[2].toLane = Cur.nodes[i].lane

\* The staged-index to HEAD edge still carries the placeholder target, row 2,
\* which is the row of the first commit of the log and not of HEAD.
C11_PlaceholderKept ==
    /\ InitialReturned
    /\ lastCall.injected
    /\ head > PageSize
    /\ Cur.edges[2].toSha = lastCall.head
    /\ Cur.edges[2].toRow = 2
    /\ Cur.nodes[3].row = 2
    /\ Cur.nodes[3].sha # lastCall.head

\* The layout of the first page as loadInitialData returns it when it does
\* not inject.
UnmodifiedReturned ==
    /\ Cur = [FirstPageLayout EXCEPT !.totalCount = getTotalCommitCount(repo)]
    /\ totalCount = getTotalCommitCount(repo)
    /\ VirtualNodeCount(Cur.nodes) = 0
    /\ VirtualEdgeCount(Cur.edges) = 0

PageAppended == lastCall.op = "loadNextPage" /\ lastCall.outcome = "layout"

\* The commits of the accumulated layout, without the synthetic nodes.
IsRealNode(n) == ~IsVirtualSha(n.sha)
RealNodes(lay) == SelectSeq(lay.nodes, IsRealNode)

\* C13: after loadInitialData and any number of loadNextPage calls the rows
\* of the accumulated node list continue without reset: the node at list
\* position i has row i, so rows are pairwise distinct and every appended
\* node has a row greater than that of every node loaded before it.
C13_RowsContinue ==
    currentLayout # Null =>
        /\ \A i \in 1..Len(Cur.nodes) : Cur.nodes[i].row = i - 1
        /\ \A i, j \in 1..Len(Cur.nodes) : i < j => Cur.nodes[i].row < Cur.nodes[j].row

\* A page appended behind the first one starts again at row 0.
C13_RowsRestart ==
    /\ PageAppended
    /\ lastCall.skip = PageSize
    /\ Len(Cur.nodes) > PageSize
    /\ Cur.nodes[Len(Cur.nodes)].row = 0
    /\ Cur.nodes[1].row = 0

\* One layout pass over everything the session has fetched so far.
SinglePass == computeGraphLayoutTS(getLogRaw(repo, head, 0, lastCall.skip + PageSize))

\* The lanes of the edges that leave the commit sha.
EdgeLanesFrom(edges, sha) ==
    {<<edges[k].toSha, edges[k].fromLane, edges[k].toLane>> :
        k \in {k \in 1..Len(edges) : edges[k].fromSha = sha}}

\* C14: page append continues the lane state of the session: the lanes, and
\* the edge lanes, that the first page followed by an appended page give to
\* the commits of the appended page are those of one layout pass over both
\* pages; a parent reserved in lane L by the first page is placed in lane L.
C14_AppendContinuesLanes ==
    (PageAppended /\ lastCall.skip = PageSize /\ Len(RealNodes(Cur)) = Len(SinglePass.nodes)) =>
        \A i \in (lastCall.skip + 1)..Len(SinglePass.nodes) :
            /\ RealNodes(Cur)[i].sha = SinglePass.nodes[i].sha
            /\ RealNodes(Cur)[i].lane = SinglePass.nodes[i].lane
            /\ EdgeLanesFrom(Cur.edges, SinglePass.nodes[i].sha) =
                   EdgeLanesFrom(SinglePass.edges, SinglePass.nodes[i].sha)

\* A merge in the first page reserved lane 1 for the commit of the second
\* page, which the append put in lane 0.
C14_ReservationLost ==
    /\ PageAppended
    /\ lastCall.skip = PageSize
    /\ Len(RealNodes(Cur)) = Len(SinglePass.nodes)
    /\ Len(SinglePass.nodes) = PageSize + 1
    /\ SinglePass.nodes[PageSize + 1].lane = 1
    /\ RealNodes(Cur)[PageSize + 1].lane = 0

\* getLoadedCount()
getLoadedCount == IF currentLayout = Null THEN 0 ELSE Len(Cur.nodes)

\* C15: once the loaded count has reached the total count, loadNextPage
\* issues no request to the log, returns null without error and leaves
\* currentLayout, loadedPages and totalCount unchanged.
C15_NoRequestWhenAllLoaded ==
    [][(/\ currentLayout # Null
        /\ getLoadedCount = totalCount
        /\ lastCall'.op = "loadNextPage")
       => /\ lastCall'.outcome = "null"
          /\ lastCall'.skip = -1
          /\ UNCHANGED <<currentLayout, loadedPages, totalCount>>
      ]_vars

\* Every commit and both synthetic nodes were loaded by loadInitialData, and
\* loadNextPage still asked the log for a page, got none and counted it.
C15_ExtraRequest ==
    /\ PageAppended
    /\ Len(repo) <= PageSize
    /\ HasVirtualNodes(Cur)
    /\ Len(Cur.nodes) = Len(repo) + 2
    /\ totalCount = Len(repo) + 2
    /\ lastCall.skip = PageSize
    /\ loadedPages = 2

\* What the guard of loadNextPage does ensure: a call made when
\* loadedPages * pageSize has reached totalCount is a no-op returning null.
C15_GuardIsNoOp ==
    [][(loadedPages * PageSize >= totalCount /\ lastCall'.op = "loadNextPage")
       => /\ lastCall'.outcome = "null"
          /\ UNCHANGED <<currentLayout, loadedPages, totalCount>>
      ]_vars

\* The fields of a GraphDataProvider as its constructor leaves them.
FreshSession ==
    /\ currentLayout = Null
    /\ layoutHandle = 0
    /\ totalCount = 0
    /\ loadedPages = 0

\* C17: after reset() or dispose(), in whatever state the session was,
\* getCurrentLayout() is null, getTotalCount() is 0, getLoadedCount() is 0
\* and the page counter is 0: the session is as its constructor left it, and
\* the loadInitialData that follows gives what it gives on a fresh session,
\* the first page of the log with or without the synthetic nodes.
C17_ResetClears ==
    [][/\ lastCall'.op = "reset" =>
             /\ currentLayout' = Null
             /\ totalCount' = 0
             /\ loadedPages' = 0
             /\ layoutHandle' = 0
       /\ lastCall.op = "reset" =>
             /\ FreshSession
             /\ getLoadedCount = 0
             /\ (lastCall'.op = "loadInitialData" /\ lastCall'.outcome = "layout") =>
                   /\ loadedPages' = 1
                   /\ currentLayout'[1].totalCount = totalCount'
                   /\ \/ /\ ~lastCall'.injected
                         /\ totalCount' = getTotalCommitCount(repo)
                         /\ currentLayout'[1].nodes = FirstPageLayout.nodes
                         /\ currentLayout'[1].edges = FirstPageLayout.edges
                      \/ /\ lastCall'.injected
                         /\ totalCount' = getTotalCommitCount(repo) + 2
                         /\ currentLayout'[1].nodes =
                               InjectVirtual(FirstPageLayout, lastCall'.head).nodes
                         /\ currentLayout'[1].edges =
                               InjectVirtual(FirstPageLayout, lastCall'.head).edges
             /\ (lastCall'.op = "loadNextPage") =>
                   /\ lastCall'.outcome = "null"
                   /\ UNCHANGED <<currentLayout, totalCount, loadedPages>>
      ]_vars

\* reset() has just run on a session of a repository with a resolvable HEAD.
C17_Witness ==
    /\ lastCall.op = "reset"
    /\ FreshSession
    /\ Len(repo) = MaxCommits
    /\ head # 0

\* ------------------------------------------------------- the graph view
\* The webview (GraphApp, VirtualScroll) and the GraphViewProvider that
\* answers it.  A message handler of the provider runs up to its await on
\* the data provider when the message is received and finishes later;
\* handlers that are waiting finish in any order.
MaxQueue == 2       \* messages waiting in one direction
MaxInFlight == 2    \* handlers waiting on the data provider
BufferRows == 50

EmptyLayout == [nodes |-> <<>>, edges |-> <<>>, totalCount |-> 0]

\* WebviewToExtMessage: ready and requestPage {skip, count}.  The page size
\* of GraphApp is fixed to the default of configuration.graphPageSize.
ViewMessage(type, skip) == [type |-> type, skip |-> skip, count |-> PageSize]

\* ExtToWebviewMessage: layoutData {data, append} and updateTotalCount {count}
LayoutData(data, append) ==
    [type |-> "layoutData", data |-> data, append |-> append, count |-> 0]
UpdateTotalCount(count) ==
    [type |-> "updateTotalCount", data |-> EmptyLayout, append |-> FALSE, count |-> count]

RemoveAt(seq, i) == SubSeq(seq, 1, i - 1) \o SubSeq(seq, i + 1, Len(seq))

\* getVisibleRange().lastRow: min(totalCount - 1, the last row in the viewport)
VisibleLastRows(vs) == IF vs.totalCount = 0 THEN {-1} ELSE 0..(vs.totalCount - 1)

\* checkDataBoundaries: the anchor rows handed to the needMoreData callbacks.
checkDataBoundaries(vs, firstRow, lastRow) ==
    IF vs.requestPending THEN <<>>
    ELSE (IF lastRow >= vs.loadedRowMax - BufferRows /\ vs.loadedRowMax < vs.totalCount
          THEN <<vs.loadedRowMax>> ELSE <<>>)
         \o (IF firstRow <= vs.loadedRowMin + BufferRows /\ vs.loadedRowMin > 0
             THEN <<vs.loadedRowMin>> ELSE <<>>)

\* A scroll event: handleScroll, checkDataBoundaries and the needMoreData
\* callback, which posts requestPage {skip: anchorRow, count: pageSize}.
handleScroll ==
    /\ \E lastRow \in VisibleLastRows(vscroll) : \E firstRow \in 0..(IF lastRow < 0 THEN 0 ELSE lastRow) :
          LET anchors == checkDataBoundaries(vscroll, firstRow, lastRow)
          IN /\ Len(toExt) + Len(anchors) <= MaxQueue
             /\ toExt' = toExt \o [k \in 1..Len(anchors) |->
                                      ViewMessage("requestPage", anchors[k])]
             /\ vscroll' = [vscroll EXCEPT !.requestPending = @ \/ Len(anchors) > 0]
    /\ UNCHANGED <<repo, head, bridge, calls, providerVars, layoutVars, app, toView, handlers>>

\* handleLayoutData, with setTotalCount and setLoadedRange of VirtualScroll
handleLayoutData(msg) ==
    LET nodes == IF msg.append THEN app.nodes \o msg.data.nodes ELSE msg.data.nodes
        edges == IF msg.append THEN app.edges \o msg.data.edges ELSE msg.data.edges
    IN /\ app' = [nodes |-> nodes, edges |-> edges,
                  totalCount |-> msg.data.totalCount, loadedCount |-> Len(nodes)]
       /\ vscroll' = [totalCount |-> msg.data.totalCount, loadedRowMin |-> 0,
                      loadedRowMax |-> Len(nodes), requestPending |-> FALSE]

\* The message listener of the webview.
ViewReceive ==
    /\ Len(toView) > 0
    /\ LET msg == Head(toView)
       IN IF msg.type = "layoutData"
          THEN handleLayoutData(msg)
          ELSE /\ app' = [app EXCEPT !.totalCount = msg.count]
               /\ vscroll' = [vscroll EXCEPT !.totalCount = msg.count]
    /\ toView' = Tail(toView)
    /\ UNCHANGED <<repo, head, bridge, calls, providerVars, layoutVars, toExt, handlers>>

\* onDidReceiveMessage: handleMessage starts and waits on the data provider.
ExtReceive ==
    /\ Len(toExt) > 0
    /\ Len(handlers) < MaxInFlight
    /\ handlers' = Append(handlers, Head(toExt))
    /\ toExt' = Tail(toExt)
    /\ UNCHANGED <<repo, head, bridge, calls, providerVars, layoutVars, app, vscroll, toView>>

\* onDidChangeVisibility: the view became visible, refresh() starts.
ExtVisibility ==
    /\ Len(handlers) < MaxInFlight
    /\ handlers' = Append(handlers, ViewMessage("visibility", 0))
    /\ UNCHANGED <<repo, head, bridge, calls, providerVars, layoutVars, app, vscroll, toExt, toView>>

\* refresh(): loadInitialData, then layoutData and updateTotalCount; an
\* error is logged and nothing is posted.
FinishRefresh ==
    /\ \E i \in 1..Len(handlers) : \E statusOk, logOk \in BOOLEAN, changes \in ChangeOutcomes :
          /\ handlers[i].type \in {"ready", "visibility"}
          /\ LoadInitialData(statusOk, logOk, changes)
          /\ toView' = IF logOk
                       THEN toView \o <<LayoutData(currentLayout'[1], FALSE),
                                        UpdateTotalCount(totalCount')>>
                       ELSE toView
          /\ Len(toView') <= MaxQueue
          /\ handlers' = RemoveAt(handlers, i)
    /\ UNCHANGED <<repo, head, bridge, calls, layoutVars, app, vscroll, toExt>>

\* loadPage(skip, count): the layout of that window of the log alone
loadPage(skip, count) == computeGraphLayoutTS(getLogRaw(repo, head, skip, count))

\* case 'requestPage': loadPage, then layoutData with append: true; an
\* error is logged and nothing is posted.
FinishRequestPage ==
    /\ \E i \in 1..Len(handlers) : \E logOk \in BOOLEAN :
          /\ handlers[i].type = "requestPage"
          /\ toView' = IF logOk
                       THEN Append(toView, LayoutData(loadPage(handlers[i].skip,
                                                               handlers[i].count), TRUE))
                       ELSE toView
          /\ Len(toView') <= MaxQueue
          /\ handlers' = RemoveAt(handlers, i)
    /\ UNCHANGED <<repo, head, bridge, calls, providerVars, layoutVars, app, vscroll, toExt>>

\* The repositories the view is run on: the linear histories.
RECURSIVE ChainFrom(_, _)
ChainFrom(i, n) == IF i > n THEN <<>>
                   ELSE <<IF i < n THEN <<i + 1>> ELSE <<>>>> \o ChainFrom(i + 1, n)
Chains == {ChainFrom(1, n) : n \in 0..MaxCommits}

\* The webview has been created and has posted ready.
ViewInit ==
    /\ repo \in Chains
    /\ head \in 0..Len(repo)
    /\ ProviderInit
    /\ raw = <<>>
    /\ row = 0
    /\ engine = EmptyEngine
    /\ layout = Null
    /\ ViewFields
    /\ toExt = <<ViewMessage("ready", 0)>>
    /\ toView = <<>>
    /\ handlers = <<>>

ViewNext ==
    \/ handleScroll
    \/ ViewReceive
    \/ ExtReceive
    \/ ExtVisibility
    \/ FinishRefresh
    \/ FinishRequestPage

SpecView == ViewInit /\ [][ViewNext]_vars

\* ------------------------------------------------ graph view: properties
\* The webview has just posted a requestPage message.
PostedRequestPage ==
    /\ Len(toExt') = Len(toExt) + 1
    /\ toExt'[Len(toExt')].type = "requestPage"

\* C16: the windowing arithmetic is consistent with the +2 of the synthetic
\* nodes: the skip of every page request made after the initial build is
\* the number of real commits already loaded, the synthetic nodes not
\* counted, so that no commit of the log is skipped or fetched twice.
C16_SkipIsRealCount ==
    [][PostedRequestPage => toExt'[Len(toExt')].skip = Len(RealNodes(app))]_vars

\* The first page and the synthetic nodes are shown, and the page asked for
\* starts two commits too far: the commit behind the first page is never
\* fetched.
C16_CommitSkipped ==
    /\ Len(repo) > PageSize
    /\ HasVirtualNodes(app)
    /\ Len(RealNodes(app)) = PageSize
    /\ Len(toExt) = 1
    /\ toExt[1].type = "requestPage"
    /\ toExt[1].skip = PageSize + 2
    /\ getLogRaw(repo, head, toExt[1].skip, toExt[1].count) = <<>>

\* The page requests that have been posted and whose answer has not been
\* handled: posted, being served by loadPage, or answered and not received.
IsRequestPage(m) == m.type = "requestPage"
IsPageAnswer(m) == m.type = "layoutData" /\ m.append
OutstandingPageRequests ==
    Len(SelectSeq(toExt, IsRequestPage)) + Len(SelectSeq(handlers, IsRequestPage))
        + Len(SelectSeq(toView, IsPageAnswer))

\* C18: the page requests of a session are serialized by the webview: from
\* the posting of a requestPage until its layoutData answer has been
\* handled no second requestPage is posted, whatever events arrive.
C18_OneRequestInFlight == OutstandingPageRequests <= 1

\* A refresh was answered while a page request was being served: the
\* webview took its layoutData for the answer and has asked again.
C18_SecondRequestPosted ==
    /\ vscroll.requestPending
    /\ Len(SelectSeq(handlers, IsRequestPage)) = 1
    /\ Len(SelectSeq(toExt, IsRequestPage)) = 1

\* ------------------------------- computeGraphLayoutTS on decorated records
\* The layout is given records whose commits carry any decoration: HEAD
\* alone (detached), HEAD -> branch, branches, tags and the stash ref.
MaxTokens == 2
MaxRecords == 2

\* The tokens of %d a commit can carry.
DecorateTokens ==
    {[head |-> "bare", tag |-> FALSE, path |-> "plain", name |-> "HEAD"],
     [head |-> "arrow", tag |-> FALSE, path |-> "heads", name |-> "main"],
     [head |-> "none", tag |-> FALSE, path |-> "heads", name |-> "main"],
     [head |-> "none", tag |-> FALSE, path |-> "stash", name |-> "refs/stash"],
     [head |-> "none", tag |-> TRUE, path |-> "tags", name |-> "main"]}

\* Parentless records with up to MaxTokens decoration tokens.
DecoratedRecords ==
    {[nfields |-> LogFormatFields, sha |-> s, parents |-> <<>>, deco |-> d] :
        s \in {Sha(1), Sha(2)}, d \in SeqsUpTo(DecorateTokens, MaxTokens)}

RecordsInit ==
    /\ repo = <<>>
    /\ head = 0
    /\ raw \in SeqsUpTo(DecoratedRecords, MaxRecords)
    /\ row = 0
    /\ engine = EmptyEngine
    /\ layout = Null
    /\ ProviderInit
    /\ NoView

SpecRecords == RecordsInit /\ [][LayoutNext]_vars

\* --------------------------------- layout engine: reservations, categories
\* The identity a lane is reserved for, NoSha when it is free or not there.
HeldBy(al, lane) == IF lane < Len(al) THEN al[lane + 1] ELSE NoSha

\* C19: for every input, with the parents-after-children order violated or
\* an identity repeated, the layout never places a commit in a lane that is
\* at that moment reserved for a different identity not yet materialized,
\* and it does not throw: it returns a layout with a node for every record.
C19_NoReservedLaneTaken ==
    [][/\ row' = row + 1 =>
             LET commit == Commits[row']
                 held == HeldBy(engine.activeLanes, engine'.nodes[row'].lane)
             IN \/ held = NoSha
                \/ held = commit.sha
                \/ held \in NodeShas(engine.nodes)
       /\ layout' # Null => Len(layout'[1].nodes) = Len(Commits)
      ]_vars

\* The record of a commit came twice: the second time it was put in the lane
\* reserved for it the first time, which by then was held for its parent.
C19_ReservationOverrun ==
    /\ row = 3
    /\ Len(engine.nodes) = 3
    /\ engine.nodes[3].sha = engine.nodes[2].sha
    /\ engine.nodes[1].sha # engine.nodes[2].sha
    /\ Len(engine.nodes[2].parents) = 1
    /\ engine.nodes[2].parents[1] \notin NodeShas(engine.nodes)
    /\ engine.nodes[3].lane = engine.nodes[2].lane
    /\ LaneOf(engine.shaToLane, engine.nodes[2].parents[1]) = engine.nodes[3].lane

\* C20: the node category is chosen with precedence Head > Stash > Normal: a
\* commit with a Head ref is Head even when it also has a Stash ref, a
\* commit with a Stash ref and no Head ref is Stash, a commit with neither
\* is Normal.
C20_HeadBeforeStash ==
    \A i \in 1..Len(engine.nodes) :
        LET n == engine.nodes[i]
        IN /\ HasRefType(n.refs, "Head") => n.nodeType = "Head"
           /\ (HasRefType(n.refs, "Stash") /\ ~HasRefType(n.refs, "Head")) =>
                 n.nodeType = "Stash"
           /\ (~HasRefType(n.refs, "Stash") /\ ~HasRefType(n.refs, "Head")) =>
                 n.nodeType = "Normal"

\* What the code does: Stash > Head > Normal.
C20_StashBeforeHead ==
    \A i \in 1..Len(engine.nodes) :
        LET n == engine.nodes[i]
        IN /\ HasRefType(n.refs, "Stash") => n.nodeType = "Stash"
           /\ (HasRefType(n.refs, "Head") /\ ~HasRefType(n.refs, "Stash")) =>
                 n.nodeType = "Head"
           /\ (~HasRefType(n.refs, "Stash") /\ ~HasRefType(n.refs, "Head")) =>
                 n.nodeType = "Normal"

\* HEAD is detached at the stash commit, and the layout was returned with
\* that commit as a Stash node.
C20_HeadShownAsStash ==
    /\ Returned
    /\ Len(L.nodes) = 1
    /\ HasRefType(L.nodes[1].refs, "Head")
    /\ HasRefType(L.nodes[1].refs, "Stash")
    /\ L.nodes[1].nodeType = "Stash"

\* ------------------------------------------ parseLogOutput on cut records
\* The number of NUL-separated fields a record of the buffer can have: a
\* blank or one-field fragment, a record cut before the subject, a record
\* without the decoration field, and a whole record of LOG_FORMAT.
FieldCounts == {1, MinFields - 1, MinFields, LogFormatFields}

MaxCut == 3          \* records in a buffer with cut records

\* Records of two commits, the first naming the second as its parent, whole
\* or cut, with or without a decoration.
CutRecords ==
    {[nfields |-> n, sha |-> Sha(i),
      parents |-> IF i = 1 /\ n > 2 THEN <<Sha(2)>> ELSE <<>>,
      deco |-> IF n > MinFields THEN d ELSE <<>>] :
        n \in FieldCounts, i \in 1..2, d \in SeqsUpTo({Decoration(1, 1)[1]}, 1)}

ParseInit ==
    /\ repo = <<>>
    /\ head = 0
    /\ raw \in SeqsUpTo(CutRecords, MaxCut)
    /\ row = 0
    /\ engine = EmptyEngine
    /\ layout = Null
    /\ ProviderInit
    /\ NoView

SpecParse == ParseInit /\ [][LayoutNext]_vars

\* The records of the buffer that have at least ten fields, in input order.
WellFormed(rec) == rec.nfields >= 10
Kept == SelectSeq(raw, WellFormed)

\* C21: parseLogOutput is lenient: every record with fewer than 10 fields is
\* skipped without an error, and the output is exactly the remaining records
\* in their input order, one commit per well-formed record, none reordered
\* and none duplicated; the layout that follows has one node per kept
\* record.
C21_LenientDecoder ==
    /\ Len(Commits) = Len(Kept)
    /\ \A i \in 1..Len(Kept) :
          /\ Commits[i].sha = Kept[i].sha
          /\ Commits[i].parents = Kept[i].parents
          /\ Commits[i].refs = parseDecorate(Kept[i].deco)
    /\ \A i \in 1..Len(engine.nodes) : engine.nodes[i].sha = Kept[i].sha
    /\ Returned => Len(L.nodes) = Len(Kept)

\* A cut record stood between two whole ones, one of them of exactly ten
\* fields, and the layout of the two was returned.
C21_Witness ==
    /\ Returned
    /\ Len(raw) = MaxCut
    /\ raw[1].nfields = MinFields
    /\ raw[2].nfields < MinFields
    /\ raw[3].nfields = LogFormatFields
    /\ Len(L.nodes) = 2
    /\ L.nodes[1].sha = raw[1].sha
    /\ L.nodes[2].sha = raw[3].sha

\* ---------------------------------------------------- the bridge operations
\* getWasm() and the call of the accelerated module: the module is not
\* loaded, or it is loaded and the call (or JSON.parse of its answer)
\* throws, or it is loaded and answers.
WasmOutcomes == {"absent", "throws", "returns"}

\* What a loaded module answers; it is computed outside these sources.
ModuleAnswer(op) == [by |-> "module", op |-> op]

\* ViaWasm that lets a failure of the module through to the caller.
ViaWasmRethrows(wasm, answer, fallback) ==
    IF wasm = "returns" THEN [threw |-> FALSE, value |-> answer]
    ELSE [threw |-> wasm = "throws", value |-> fallback]

\* if (wasm) { try { return JSON.parse(wasm.op(..)); } catch (error) { log(..); } }
\* return <fallback>;
ViaWasm(wasm, answer, fallback) ==
    IF wasm = "returns" THEN [threw |-> FALSE, value |-> answer]
    ELSE [threw |-> FALSE, value |-> fallback]

\* The buffers handed to the layout operations: the pages of the log.
BridgeWindows == {getLogRaw(repo, head, skip, PageSize) : skip \in {0, PageSize}}

BridgeCall(op, wasm, rawLog, result) ==
    /\ bridge' = [op |-> op, wasm |-> wasm, rawLog |-> rawLog,
                  threw |-> result.threw, value |-> result.value]
    /\ UNCHANGED <<repo, head, calls, providerVars, layoutVars, viewVars>>

computeGraphLayout ==
    \E wasm \in WasmOutcomes, rawLog \in BridgeWindows :
        BridgeCall("computeGraphLayout", wasm, rawLog,
                   ViaWasm(wasm, ModuleAnswer("compute_graph_layout"),
                           computeGraphLayoutTS(rawLog)))

BridgeAppendToLayout ==
    \E wasm \in WasmOutcomes, rawLog \in BridgeWindows :
        BridgeCall("appendToLayout", wasm, rawLog,
                   ViaWasm(wasm, ModuleAnswer("append_to_layout"),
                           appendToLayout(layoutHandle, rawLog)))

\* return []; client-side filtering is done in the webview
filterCommits ==
    \E wasm \in WasmOutcomes :
        BridgeCall("filterCommits", wasm, <<>>,
                   ViaWasm(wasm, ModuleAnswer("filter_commits"), <<>>))

filterByDate ==
    \E wasm \in WasmOutcomes :
        BridgeCall("filterByDate", wasm, <<>>,
                   ViaWasm(wasm, ModuleAnswer("filter_by_date"), <<>>))

BridgeNext == computeGraphLayout \/ BridgeAppendToLayout \/ filterCommits \/ filterByDate

SpecBridge == Init /\ [][BridgeNext]_vars

\* C22: no bridge operation propagates a failure of the accelerated module:
\* when the module is absent or its call throws, computeGraphLayout and
\* appendToLayout return the layout the TypeScript implementation computes
\* from the same bytes, and filterCommits and filterByDate return an empty
\* list.
C22_NoFailurePropagates ==
    (bridge.op # "none" /\ bridge.wasm \in {"absent", "throws"}) =>
        /\ ~bridge.threw
        /\ bridge.op \in {"computeGraphLayout", "appendToLayout"} =>
              bridge.value = computeGraphLayoutTS(bridge.rawLog)
        /\ bridge.op \in {"filterCommits", "filterByDate"} => bridge.value = <<>>

\* The module threw on the append of a full second page, and the layout of
\* that page came back.
C22_Witness ==
    /\ bridge.op = "appendToLayout"
    /\ bridge.wasm = "throws"
    /\ ~bridge.threw
    /\ bridge.rawLog = getLogRaw(repo, head, PageSize, PageSize)
    /\ Len(bridge.value.nodes) = 1
    /\ bridge.value.nodes[1].sha = Sha(PageSize + 1)

\* -------------------------------------------- layout engine: edge colors
\* C23: after the second pass every retained Normal edge has the colorIndex
\* of its target node, the node at its toRow, and every retained Merge edge
\* has the colorIndex of its source node, the merge point at its fromRow.
C23_EdgeColors ==
    Returned =>
        \A k \in 1..Len(L.edges) :
            LET e == L.edges[k]
            IN /\ e.fromRow + 1 \in 1..Len(L.nodes)
               /\ e.toRow + 1 \in 1..Len(L.nodes)
               /\ e.edgeType = "Normal" => e.colorIndex = L.nodes[e.toRow + 1].colorIndex
               /\ e.edgeType = "Merge" => e.colorIndex = L.nodes[e.fromRow + 1].colorIndex

\* A merge whose first parent and second parent are both colored otherwise
\* than the merge itself: the Normal edge was recolored, the Merge edge kept.
C23_Witness ==
    /\ Returned
    /\ ParentsAfterChildren(Commits)
    /\ \E k, m \in 1..Len(L.edges) :
          /\ L.edges[k].fromSha = L.edges[m].fromSha
          /\ L.edges[k].edgeType = "Normal"
          /\ L.edges[m].edgeType = "Merge"
          /\ L.edges[k].colorIndex # L.nodes[L.edges[k].fromRow + 1].colorIndex
          /\ L.edges[m].colorIndex # L.nodes[L.edges[m].toRow + 1].colorIndex

\* ------------------------------------- paging session: edges, row order
\* C24: after any sequence of page appends the edges are complete across
\* page boundaries: for every loaded commit c and every parent p of c that
\* is a node of the accumulated layout, the accumulated edge list has an
\* edge from c to p whose toRow is the row of p, also when c and p were
\* loaded by different pages.
C24_EdgesAcrossPages ==
    currentLayout # Null =>
        \A i, j \in 1..Len(Cur.nodes) :
            (/\ IsRealNode(Cur.nodes[i])
             /\ \E q \in 1..Len(Cur.nodes[i].parents) :
                   Cur.nodes[i].parents[q] = Cur.nodes[j].sha)
            => \E k \in 1..Len(Cur.edges) :
                  /\ Cur.edges[k].fromSha = Cur.nodes[i].sha
                  /\ Cur.edges[k].toSha = Cur.nodes[j].sha
                  /\ Cur.edges[k].toRow = Cur.nodes[j].row

\* The last commit of the first page has its parent in the appended page,
\* and the accumulated layout has no edge between the two.
C24_CrossPageEdgeMissing ==
    /\ PageAppended
    /\ lastCall.skip = PageSize
    /\ Len(RealNodes(Cur)) = PageSize + 1
    /\ RealNodes(Cur)[PageSize].parents = <<Sha(PageSize + 1)>>
    /\ RealNodes(Cur)[PageSize + 1].sha = Sha(PageSize + 1)
    /\ \A k \in 1..Len(Cur.edges) :
          ~(Cur.edges[k].fromSha = Sha(PageSize) /\ Cur.edges[k].toSha = Sha(PageSize + 1))

\* --------------------------------------- layout engine: lane exclusivity
\* The identities named as a parent by a commit already laid out.
ReferencedShas ==
    UNION {{Commits[j].parents[q] : q \in 1..Len(Commits[j].parents)} : j \in 1..row}

\* The row (1-based) of the first commit that names the identity as a parent.
FirstReference(sha) ==
    CHOOSE j \in 1..row :
        /\ \E q \in 1..Len(Commits[j].parents) : Commits[j].parents[q] = sha
        /\ \A i \in 1..(j - 1) : \A q \in 1..Len(Commits[i].parents) :
              Commits[i].parents[q] # sha

\* Referenced and not yet laid out.
PendingShas == ReferencedShas \ NodeShas(engine.nodes)

\* C25: lane exclusivity.  For input in parents-after-children order with
\* unique identities, an identity P first named as a parent at some row is
\* reserved in a lane L; as long as P is pending lane L is held for P, no
\* other pending identity is reserved in L and no node of a later row is
\* placed in L; and P itself is placed in L.
C25_LaneExclusivity ==
    ParentsAfterChildren(Commits) =>
        \A P \in ReferencedShas :
            /\ HasLane(engine.shaToLane, P)
            /\ LET lane == LaneOf(engine.shaToLane, P)
                   first == FirstReference(P)
                   m == FindNode(engine.nodes, P)
                   last == IF m = 0 THEN row ELSE m - 1
               IN /\ \A i \in (first + 1)..last : engine.nodes[i].lane # lane
                  /\ m # 0 => engine.nodes[m].lane = lane
                  /\ m = 0 =>
                        /\ HeldBy(engine.activeLanes, lane) = P
                        /\ \A Q \in PendingShas \ {P} : LaneOf(engine.shaToLane, Q) # lane

\* A parent was pending in lane 0 while an unrelated commit was laid out in
\* lane 1, and was then placed in lane 0.
C25_Witness ==
    /\ ParentsAfterChildren(Commits)
    /\ row = MaxCommits
    /\ engine.nodes[1].parents = <<engine.nodes[3].sha>>
    /\ engine.nodes[1].lane = 0
    /\ engine.nodes[2].sha \notin ReferencedShas
    /\ engine.nodes[2].lane = 1
    /\ engine.nodes[3].lane = 0

\* ----------------------------------- GraphDataProvider, await by await
\* loadInitialData and loadNextPage are async: a call runs up to its next
\* await, and other calls and reset() run on the same fields before it
\* resumes.  calls lists the calls of the session in the order they were
\* started, each with its position and its locals.
MaxCalls == 3       \* calls started in one session

\* A call as it is when it starts; during is the set of calls in flight at
\* that moment, resetSince whether reset() has run since.
InFlight(c) == c.pc \in {"counting", "logging", "building"}
InFlightNow == {i \in 1..Len(calls) : InFlight(calls[i])}
NewCall(op, pc, skip) ==
    [op |-> op, pc |-> pc, headSha |-> NoSha, skip |-> skip, during |-> InFlightNow,
     resetSince |-> FALSE, injected |-> FALSE, error |-> "none"]

\* loadInitialData() up to await Promise.all([getTotalCommitCount, status])
BeginLoadInitialData ==
    /\ Len(calls) < MaxCalls
    /\ calls' = Append(calls, NewCall("loadInitialData", "counting", 0))
    /\ UNCHANGED <<repo, head, bridge, providerVars, layoutVars, viewVars>>

\* this.totalCount = totalCount, up to await getLogRaw
ResumeAfterCount ==
    /\ \E i \in 1..Len(calls) : \E statusOk \in BOOLEAN :
          /\ calls[i].op = "loadInitialData"
          /\ calls[i].pc = "counting"
          /\ totalCount' = getTotalCommitCount(repo)
          /\ calls' = [calls EXCEPT ![i] = [@ EXCEPT !.pc = "logging",
                                                      !.headSha = StatusHead(statusOk)]]
    /\ UNCHANGED <<repo, head, bridge, currentLayout, layoutHandle, loadedPages,
                   lastCall, layoutVars, viewVars>>

\* this.currentLayout.totalCount = this.totalCount; this.loadedPages = 1;
\* return this.currentLayout.  The first statement throws a TypeError when
\* currentLayout is null.
FinishInitial(i, cur, total, injected) ==
    IF cur = Null
    THEN /\ calls' = [calls EXCEPT ![i] = [@ EXCEPT !.pc = "threw", !.error = "TypeError"]]
         /\ UNCHANGED <<currentLayout, totalCount, loadedPages>>
    ELSE /\ currentLayout' = Some([cur[1] EXCEPT !.totalCount = total])
         /\ totalCount' = total
         /\ loadedPages' = 1
         /\ calls' = [calls EXCEPT ![i] = [@ EXCEPT !.pc = "returned",
                                                     !.injected = injected]]

\* this.currentLayout = computeGraphLayout(rawLog), up to
\* await this.buildVirtualNodes(status.head), or to the end without HEAD
ResumeAfterLog ==
    /\ \E i \in 1..Len(calls) : \E logOk \in BOOLEAN :
          /\ calls[i].op = "loadInitialData"
          /\ calls[i].pc = "logging"
          /\ IF ~logOk
             THEN /\ calls' = [calls EXCEPT ![i] = [@ EXCEPT !.pc = "threw", !.error = "git"]]
                  /\ UNCHANGED <<currentLayout, totalCount, loadedPages>>
             ELSE IF calls[i].headSha # NoSha
             THEN /\ currentLayout' = Some(FirstPageLayout)
                  /\ calls' = [calls EXCEPT ![i] = [@ EXCEPT !.pc = "building"]]
                  /\ UNCHANGED <<totalCount, loadedPages>>
             ELSE FinishInitial(i, Some(FirstPageLayout), totalCount, FALSE)
    /\ UNCHANGED <<repo, head, bridge, layoutHandle, lastCall, layoutVars, viewVars>>

\* buildVirtualNodes resumes and reads this.currentLayout; then the rows of
\* this.currentLayout are shifted, the synthetic nodes put in front and
\* this.totalCount += 2; a failure in the try block is caught.
ResumeAfterBuild ==
    /\ \E i \in 1..Len(calls) : \E changes \in ChangeOutcomes :
          /\ calls[i].op = "loadInitialData"
          /\ calls[i].pc = "building"
          /\ IF Injects(calls[i].headSha, changes) /\ currentLayout # Null
             THEN FinishInitial(i, Some(InjectVirtual(Cur, calls[i].headSha)),
                                InjectedCount(totalCount), TRUE)
             ELSE FinishInitial(i, currentLayout, totalCount, FALSE)
    /\ UNCHANGED <<repo, head, bridge, layoutHandle, lastCall, layoutVars, viewVars>>

\* loadNextPage() up to await getLogRaw: skip is computed before the await
BeginLoadNextPage ==
    /\ Len(calls) < MaxCalls
    /\ LET skip == loadedPages * PageSize
       IN calls' = Append(calls, NewCall("loadNextPage",
                                         IF skip >= totalCount THEN "null" ELSE "logging",
                                         skip))
    /\ UNCHANGED <<repo, head, bridge, providerVars, layoutVars, viewVars>>

\* appendToLayout, the push onto this.currentLayout and this.loadedPages++
ResumeNextPage ==
    /\ \E i \in 1..Len(calls) : \E logOk \in BOOLEAN :
          /\ calls[i].op = "loadNextPage"
          /\ calls[i].pc = "logging"
          /\ IF ~logOk
             THEN /\ calls' = [calls EXCEPT ![i] = [@ EXCEPT !.pc = "threw", !.error = "git"]]
                  /\ UNCHANGED <<currentLayout, loadedPages>>
             ELSE /\ currentLayout' =
                        AppendPage(currentLayout,
                                   appendToLayout(layoutHandle,
                                                  getLogRaw(repo, head, calls[i].skip, PageSize)),
                                   totalCount)
                  /\ loadedPages' = loadedPages + 1
                  /\ calls' = [calls EXCEPT ![i] = [@ EXCEPT !.pc = "returned"]]
    /\ UNCHANGED <<repo, head, bridge, layoutHandle, totalCount, lastCall,
                   layoutVars, viewVars>>

\* reset(), at any moment
ResetNow ==
    /\ Reset
    /\ calls' = [i \in 1..Len(calls) |-> [calls[i] EXCEPT !.resetSince = TRUE]]
    /\ UNCHANGED <<repo, head, bridge, layoutVars, viewVars>>

AsyncInit ==
    /\ repo \in Chains
    /\ head \in 0..Len(repo)
    /\ ProviderInit
    /\ raw = <<>>
    /\ row = 0
    /\ engine = EmptyEngine
    /\ layout = Null
    /\ NoView

AsyncNext ==
    \/ BeginLoadInitialData
    \/ ResumeAfterCount
    \/ ResumeAfterLog
    \/ ResumeAfterBuild
    \/ BeginLoadNextPage
    \/ ResumeNextPage
    \/ ResetNow

SpecAsync == AsyncInit /\ [][AsyncNext]_vars

\* ------------------------------------------ overlapping calls: properties
\* Two loadInitialData calls overlapped, both with HEAD resolved and the
\* change lists retrieved, and both have returned; nothing else was called.
TwoInitialLoadsOverlapped ==
    /\ Len(calls) = 2
    /\ \A i \in 1..2 :
          /\ calls[i].op = "loadInitialData"
          /\ calls[i].pc = "returned"
          /\ calls[i].injected
          /\ ~calls[i].resetSince
    /\ calls[2].during = {1}

\* C26: if two loadInitialData calls on the same GraphDataProvider overlap,
\* the second starting while the first is suspended at an await, then in
\* every interleaving the final accumulated layout holds each synthetic
\* node exactly once, every real row is shifted by exactly 2 and totalCount
\* is the commit count plus 2.
C26_OverlapInjectsOnce ==
    TwoInitialLoadsOverlapped =>
        /\ VirtualNodeCount(Cur.nodes) = 2
        /\ HasVirtualNodes(Cur)
        /\ Len(RealNodes(Cur)) = Len(FirstPageLayout.nodes)
        /\ \A i \in 1..Len(FirstPageLayout.nodes) :
              RealNodes(Cur)[i].row = FirstPageLayout.nodes[i].row + 2
        /\ totalCount = getTotalCommitCount(repo) + 2
        /\ Cur.totalCount = totalCount

\* Both calls laid the first page out before either injected: the second
\* layout was shifted twice and holds four synthetic nodes, and totalCount
\* is the commit count plus 4.
C26_InjectedTwice ==
    /\ TwoInitialLoadsOverlapped
    /\ Len(repo) > 0
    /\ VirtualNodeCount(Cur.nodes) = 4
    /\ Cur.nodes[3].sha = COMMIT_INDEX_SHA
    /\ Cur.nodes[3].row = 2
    /\ Cur.nodes[5].sha = Sha(1)
    /\ Cur.nodes[5].row = 4
    /\ totalCount = getTotalCommitCount(repo) + 4

\* loadInitialData returned, then two loadNextPage calls overlapped and
\* both returned; nothing else was called.
TwoNextPagesOverlapped ==
    /\ Len(calls) = 3
    /\ calls[1].op = "loadInitialData"
    /\ \A i \in 2..3 : calls[i].op = "loadNextPage" /\ calls[i].pc = "returned"
    /\ \A i \in 1..3 : ~calls[i].resetSince
    /\ calls[2].during = {}
    /\ calls[3].during = {2}

\* C27: if two loadNextPage calls on the same GraphDataProvider overlap,
\* then in every interleaving each page window is requested and appended at
\* most once and no window is skipped: the windows appended are skip =
\* pageSize, 2 * pageSize, ... in order, one per completed call.
C27_WindowsOncePerCall ==
    TwoNextPagesOverlapped =>
        /\ calls[2].skip = PageSize
        /\ calls[3].skip = 2 * PageSize
        /\ loadedPages = 3
        /\ \A i, j \in 1..Len(Cur.nodes) : i # j => Cur.nodes[i].sha # Cur.nodes[j].sha

\* Both calls read the page counter before either had appended: the window
\* at PageSize was appended twice, and the page counter has moved past the
\* window that would follow.
C27_WindowAppendedTwice ==
    /\ TwoNextPagesOverlapped
    /\ Len(repo) > PageSize
    /\ calls[2].skip = PageSize
    /\ calls[3].skip = PageSize
    /\ loadedPages = 3
    /\ Cardinality({i \in 1..Len(Cur.nodes) : Cur.nodes[i].sha = Sha(PageSize + 1)}) = 2

\* C28: a reset() that happens while a loadInitialData or loadNextPage of
\* the session is suspended at an await stays effective: the call does not
\* throw when it resumes, and after it has completed the session is still
\* empty (currentLayout null, totalCount 0, page counter 0) until a new
\* loadInitialData is started.
C28_ResetStaysEffective ==
    (/\ calls # <<>>
     /\ \A i \in 1..Len(calls) : calls[i].resetSince /\ ~InFlight(calls[i]))
    => /\ \A i \in 1..Len(calls) : calls[i].error # "TypeError"
       /\ currentLayout = Null
       /\ totalCount = 0
       /\ loadedPages = 0

\* reset() ran while the only call, a loadInitialData, waited for the log;
\* the call then installed its layout and returned it.
C28_LayoutAfterReset ==
    /\ Len(calls) = 1
    /\ calls[1].op = "loadInitialData"
    /\ calls[1].resetSince
    /\ calls[1].pc = "returned"
    /\ currentLayout # Null
    /\ loadedPages = 1
    /\ totalCount = 0

\* ------------------------------------------------- graph view: progress
\* The view with its scheduling: a posted message is delivered and handled
\* (ViewReceive, ExtReceive), and a handler waiting on a git command
\* finishes, since the command ends or times out (FinishRefresh,
\* FinishRequestPage).  Scroll and visibility events are the user's and
\* need not happen.
SpecViewFair ==
    /\ SpecView
    /\ WF_vars(ViewReceive)
    /\ WF_vars(ExtReceive)
    /\ WF_vars(FinishRefresh)
    /\ WF_vars(FinishRequestPage)

\* C29: paging makes progress after a failure: whenever the webview has
\* posted a requestPage its request-pending flag is eventually cleared, also
\* when the page load of the extension throws and no layoutData answer is
\* sent, so that a later scroll near the end of the loaded rows can request
\* the page again.
C29_PendingEventuallyCleared ==
    vscroll.requestPending ~> ~vscroll.requestPending

\* The page load has thrown: the flag is set, the loaded rows are fewer than
\* the total, and no message or handler is left that could clear it.
C29_PendingForever ==
    /\ vscroll.requestPending
    /\ vscroll.loadedRowMax < vscroll.totalCount
    /\ toExt = <<>>
    /\ toView = <<>>
    /\ handlers = <<>>
    /\ checkDataBoundaries(vscroll, 0, vscroll.totalCount - 1) = <<>>

\* ------------------------------------- paging session: order of the rows
\* Node i names node j as one of its parents.
NamesAsParent(nodes, i, j) ==
    \E q \in 1..Len(nodes[i].parents) : nodes[i].parents[q] = nodes[j].sha

\* C30: in every layout returned by loadInitialData the rows respect the
\* children-before-parents order for all nodes, the synthetic ones included:
\* every node has a strictly smaller row than each node of the layout named
\* in its parents list, and every edge has fromRow < toRow.
C30_ChildrenBeforeParents ==
    InitialReturned =>
        /\ \A i, j \in 1..Len(Cur.nodes) :
              NamesAsParent(Cur.nodes, i, j) => Cur.nodes[i].row < Cur.nodes[j].row
        /\ \A k \in 1..Len(Cur.edges) : Cur.edges[k].fromRow < Cur.edges[k].toRow

\* What the code keeps: the order holds among the commits of the log and
\* between the staged-index node and HEAD.
C30_RealRowsOrdered ==
    InitialReturned =>
        /\ \A i, j \in 1..Len(Cur.nodes) :
              (NamesAsParent(Cur.nodes, i, j) /\ Cur.nodes[i].sha # WORKING_DIR_SHA)
                  => Cur.nodes[i].row < Cur.nodes[j].row
        /\ \A k \in 1..Len(Cur.edges) :
              Cur.edges[k].fromSha # WORKING_DIR_SHA
                  => Cur.edges[k].fromRow < Cur.edges[k].toRow

\* The working-tree node is at row 1, below the staged-index node it names
\* as its parent, and its edge goes up from row 1 to row 0.
C30_WorkingTreeBelowIndex ==
    /\ InitialReturned
    /\ lastCall.injected
    /\ Cur.nodes[2].sha = WORKING_DIR_SHA
    /\ Cur.nodes[2].parents = <<Cur.nodes[1].sha>>
    /\ Cur.nodes[2].row > Cur.nodes[1].row
    /\ Cur.edges[1].fromSha = WORKING_DIR_SHA
    /\ Cur.edges[1].fromRow = 1
    /\ Cur.edges[1].toRow = 0

====
